---- MODULE Spec2Model ----
(***************************************************************************)
(* Model of the cloud-service-broker deprovision path: the broker's        *)
(* Deprovision handler (brokerapi/broker), the Terraform provider's        *)
(* upgrade check (pkg/providers/tf) and the rows they read and write.      *)
(*                                                                         *)
(* Deprovision is modelled statement by statement: every call to a         *)
(* collaborator (store, provider) is one step of the request, so that      *)
(* concurrent requests interleave exactly at those calls.  Two             *)
(* specifications share the steps: Spec serves one broker request at a     *)
(* time, ConcSpec lets requests, polls and engine runs interleave freely.  *)
(***************************************************************************)
EXTENDS Integers, Sequences, FiniteSets, TLC

\* ------------------------------------------------------------------ bounds
\* largest major segment of a semantic version in the model
MaxSeg == 1
\* the longest byte sequence handed to the no-op encryptor
MaxLen == 3
\* the longest chain of calls made on one context builder before Build
MaxCalls == 3
\* the most services of one brokerpak
MaxServices == 2

\* ------------------------------------------------------------- input sets
Instances == {"i1", "i2"}
Requests == {"r1", "r2"}
OperationIDs == {"op1", "op2"}
ProvisionOperationIDs == {"op1"}
\* whether a collaborator call succeeds: any outcome, or success only
AnyOutcome == BOOLEAN
Success == {TRUE}
\* a version is <<major, minor>>; NoVersion is a state whose version cannot
\* be read (workspace.StateVersion() returns an error)
Versions == (0..MaxSeg) \X {0, 1}
NoVersion == <<>>

ProvisionOperationType == "provision"
DeprovisionOperationType == "deprovision"
InProgress == "in progress"
Succeeded == "succeeded"
Failed == "failed"

\* ------------------------------------------------------------------ state
VARIABLES
    defaultTfVersion,         \* provider.tfBinContext.DefaultTfVersion
    stateTfVersion,           \* the version the engine that provisioned wrote into its state
    instanceDetails,          \* store: service instance details rows, by instance id
    provisionRequestDetails,  \* store: instance ids with a provision request details row
    terraformDeployments,     \* store: terraform deployment records, by tf id
    inflight,                 \* engine executions running, per deployment
    removed,                  \* instance ids whose instance row has been deleted
    requests,                 \* the Deprovision calls being served
    invocation,               \* the call of the 0.12 invoker being served
    encryptor,                \* storage: the encryptor the Storage was built with
    table,                    \* storage: the rows of the terraform deployments table
    storageCalls,             \* storage: the calls of the Storage being served
    lastStored,               \* storage: per id, the record last stored and not deleted since
    encryption,               \* the call of the no-op encryptor last made
    builder,                  \* the context builder of the chain of calls being made
    registrar                 \* the call of Registrar.toDefinitions last made

vars == <<defaultTfVersion, stateTfVersion, instanceDetails, provisionRequestDetails,
          terraformDeployments, inflight, removed, requests, invocation,
          encryptor, table, storageCalls, lastStored, encryption, builder, registrar>>

\* the state of the service broker
broker == <<defaultTfVersion, stateTfVersion, instanceDetails, provisionRequestDetails,
            terraformDeployments, inflight, removed, requests>>
\* the state of the components the service broker's handlers do not touch
components == <<invocation, encryptor, table, storageCalls, lastStored,
                encryption, builder, registrar>>
\* the state of the components that hold no state of the running broker
libraries == <<encryption, builder, registrar>>
\* the state of the deployment storage
storage == <<encryptor, table, storageCalls, lastStored>>

store == <<instanceDetails, provisionRequestDetails, terraformDeployments>>

\* generateTfID(instanceGUID, bindingGUID); generateTFInstanceID is the same
\* with no binding
generateTfID(instanceGUID, bindingGUID) == <<"tf", instanceGUID, bindingGUID>>
generateTFInstanceID(instanceID) == generateTfID(instanceID, "")
TfIDs == {generateTFInstanceID(i) : i \in Instances}

\* errors are cause chains, outermost message first; nil is the empty chain
Nil == <<>>
ErrAsyncRequired == <<"AsyncRequired">>
ErrInstanceDoesNotExist == <<"InstanceNotFound">>
ErrOperationInProgress == <<"OperationInProgress">>
ErrNewerTerraform == <<"operation attempted with newer version of Terraform than current state, upgrade the service before retrying operation">>
ErrStateVersion == <<"state version error">>
ErrDeploymentNotFound == <<"could not find terraform deployment">>
ErrDecoding == <<"error decoding workspace">>
ErrDatabase == <<"database error">>
ErrProvider == <<"provider error">>

NoInstance == [exists |-> FALSE, GUID |-> "", OperationType |-> "", OperationGUID |-> ""]
NoDeployment == [exists |-> FALSE, StateVersion |-> NoVersion,
                 LastOperationType |-> "", LastOperationState |-> ""]
NoResponse == [IsAsync |-> FALSE, OperationData |-> ""]
NoSnapshot == [instanceDetails |-> [i \in Instances |-> NoInstance],
               provisionRequestDetails |-> {},
               terraformDeployments |-> [d \in TfIDs |-> NoDeployment],
               inflight |-> [d \in TfIDs |-> 0]]

IdleRequest == [pc |-> "idle", instanceID |-> "", clientSupportsAsync |-> FALSE,
                instance |-> NoInstance, operationID |-> "", err |-> Nil,
                response |-> NoResponse, calls |-> {}, pre |-> NoSnapshot]

Snapshot == [instanceDetails |-> instanceDetails,
             provisionRequestDetails |-> provisionRequestDetails,
             terraformDeployments |-> terraformDeployments,
             inflight |-> inflight]

\* no broker request is being served
Quiescent == \A r \in Requests : requests[r].pc = "idle"

\* no invoker method has been called
IdleInvocation ==
    [pc |-> "idle", method |-> "", resources |-> <<>>, commands |-> <<>>,
     ran |-> <<>>, failedAt |-> 0, executeErr |-> Nil, err |-> Nil]

\* storage.TerraformDeployment and models.TerraformDeployment zero values
NoRecord ==
    [ID |-> "", Workspace |-> "", LastOperationType |-> "",
     LastOperationState |-> "", LastOperationMessage |-> ""]
StorageCallers == {"c1", "c2"}
StorageIDs == {"d1", "d2"}
NoTableSnapshot == {}
\* no method of Storage has been called
IdleStorageCall ==
    [pc |-> "idle", op |-> "", id |-> "", record |-> NoRecord, blob |-> <<>>,
     err |-> Nil, result |-> NoRecord, found |-> FALSE, before |-> NoTableSnapshot]
\* storage.New over an empty table
StorageAtRest ==
    /\ encryptor = "noop"
    /\ table = {}
    /\ storageCalls = [c \in StorageCallers |-> IdleStorageCall]
    /\ lastStored = [id \in StorageIDs |-> NoRecord]

BrokerInit ==
    /\ defaultTfVersion \in Versions
    /\ stateTfVersion \in Versions \cup {NoVersion}
    /\ instanceDetails = [i \in Instances |-> NoInstance]
    /\ provisionRequestDetails = {}
    /\ terraformDeployments = [d \in TfIDs |-> NoDeployment]
    /\ inflight = [d \in TfIDs |-> 0]
    /\ removed = {}
    /\ requests = [r \in Requests |-> IdleRequest]

\* no method of the no-op encryptor has been called
IdleEncryption == [op |-> "", input |-> <<>>, output |-> [bytes |-> <<>>, err |-> Nil]]
\* varcontext.Builder(): nothing merged, no constants, no error
NoContext == [exists |-> FALSE, map |-> <<>>]
NewBuilder ==
    [context |-> <<>>, constants |-> <<>>, err |-> Nil, calls |-> 0,
     last |-> [op |-> "", arg |-> <<>>],
     built |-> FALSE, result |-> NoContext, buildErr |-> Nil]
\* toDefinitions has not been called
IdleRegistrar ==
    [pc |-> "idle", services |-> <<>>, excluded |-> {}, prefix |-> "",
     out |-> <<>>, err |-> Nil]
LibrariesAtRest ==
    /\ encryption = IdleEncryption
    /\ builder = NewBuilder
    /\ registrar = IdleRegistrar

Init ==
    /\ BrokerInit
    /\ invocation = IdleInvocation
    /\ StorageAtRest
    /\ LibrariesAtRest

\* ------------------------------------------------- version compatibility
\* version.Compare: the first differing segment decides
RECURSIVE CompareSegments(_, _, _)
CompareSegments(a, b, k) ==
    IF k > Len(a) THEN 0
    ELSE IF a[k] < b[k] THEN -1
    ELSE IF a[k] > b[k] THEN 1
    ELSE CompareSegments(a, b, k + 1)

LessThan(a, b) == CompareSegments(a, b, 1) < 0

\* checkTerraformVersion with the two versions swapped in the comparison
checkTerraformVersionSwapped(workspace) ==
    IF workspace.StateVersion = NoVersion THEN ErrStateVersion
    ELSE IF LessThan(defaultTfVersion, workspace.StateVersion) THEN ErrNewerTerraform
    ELSE Nil

\* TerraformProvider.checkTerraformVersion
checkTerraformVersion(workspace) ==
    IF workspace.StateVersion = NoVersion THEN ErrStateVersion
    ELSE IF LessThan(workspace.StateVersion, defaultTfVersion) THEN ErrNewerTerraform
    ELSE Nil

\* provider.GetTerraformDeployment: the record, or why it cannot be had;
\* decodes is whether the stored blob decrypts and parses
GetTerraformDeploymentErr(deploymentGUID, decodes) ==
    IF ~terraformDeployments[deploymentGUID].exists THEN ErrDeploymentNotFound
    ELSE IF ~decodes THEN ErrDecoding
    ELSE Nil

\* TerraformProvider.CheckUpgradeAvailable
CheckUpgradeAvailable(deploymentGUID, decodes) ==
    LET err == GetTerraformDeploymentErr(deploymentGUID, decodes) IN
    IF err # Nil THEN err
    ELSE checkTerraformVersion(terraformDeployments[deploymentGUID])

\* ------------------------------------------------------------ the provider
\* What serviceProvider.Deprovision can do for a deployment: fail without
\* starting anything, refuse because an operation is in progress, finish the
\* destroy before returning (no operation id), or start the destroy in the
\* background and return its operation id.
ProviderDeprovisionOutcomes(deploymentGUID) ==
    LET deployment == terraformDeployments[deploymentGUID] IN
    IF ~deployment.exists
    THEN {[err |-> ErrDeploymentNotFound, operationID |-> "", deployment |-> deployment, started |-> 0]}
    ELSE IF deployment.LastOperationState = InProgress
    THEN {[err |-> ErrOperationInProgress, operationID |-> "", deployment |-> deployment, started |-> 0]}
    ELSE {[err |-> ErrProvider, operationID |-> "", deployment |-> deployment, started |-> 0]}
         \cup {[err |-> Nil, operationID |-> "",
                 deployment |-> [deployment EXCEPT !.LastOperationType = DeprovisionOperationType,
                                                   !.LastOperationState = Succeeded],
                 started |-> 0]}
         \cup {[err |-> Nil, operationID |-> op,
                 deployment |-> [deployment EXCEPT !.LastOperationType = DeprovisionOperationType,
                                                   !.LastOperationState = InProgress],
                 started |-> 1] : op \in OperationIDs}

\* ------------------------------------------------- ServiceBroker.Deprovision
Called(r, names) == requests[r].calls \cup names

\* the request moves on to its next statement
Goto(r, label, names) ==
    requests' = [requests EXCEPT ![r].pc = label, ![r].calls = Called(r, names)]

\* return response, err
ReturnErr(r, err, names) ==
    requests' = [requests EXCEPT ![r].pc = "done", ![r].err = err,
                                 ![r].calls = Called(r, names)]

\* a Deprovision call arrives; pre is the store as the call finds it
DeprovisionStart(r, pre) ==
    /\ requests[r].pc = "idle"
    /\ \E instanceID \in Instances, clientSupportsAsync \in BOOLEAN :
          requests' = [requests EXCEPT ![r] =
              [IdleRequest EXCEPT !.pc = "entry", !.instanceID = instanceID,
                                  !.clientSupportsAsync = clientSupportsAsync,
                                  !.pre = pre]]
    /\ UNCHANGED <<components, defaultTfVersion, stateTfVersion, store, inflight, removed>>

\* Deprovision without the check of clientSupportsAsync
DeprovisionEntryNoAsyncCheck(r) ==
    /\ requests[r].pc = "entry"
    /\ Goto(r, "exists", {})
    /\ UNCHANGED <<components, defaultTfVersion, stateTfVersion, store, inflight, removed>>

\* if !clientSupportsAsync { return response, apiresponses.ErrAsyncRequired }
DeprovisionEntry(r) ==
    /\ requests[r].pc = "entry"
    /\ IF ~requests[r].clientSupportsAsync
       THEN ReturnErr(r, ErrAsyncRequired, {})
       ELSE Goto(r, "exists", {})
    /\ UNCHANGED <<components, defaultTfVersion, stateTfVersion, store, inflight, removed>>

\* the existence check with the case !exists left out
DeprovisionExistsIgnored(r, Outcomes) ==
    /\ requests[r].pc = "exists"
    /\ \E dbOk \in Outcomes :
          IF ~dbOk
          THEN ReturnErr(r, <<"database error checking for existing instance">> \o ErrDatabase,
                         {"ExistsServiceInstanceDetails"})
          ELSE Goto(r, "get", {"ExistsServiceInstanceDetails"})
    /\ UNCHANGED <<components, defaultTfVersion, stateTfVersion, store, inflight, removed>>

\* exists, err := broker.store.ExistsServiceInstanceDetails(instanceID)
DeprovisionExists(r, Outcomes) ==
    /\ requests[r].pc = "exists"
    /\ \E dbOk \in Outcomes :
          LET exists == instanceDetails[requests[r].instanceID].exists IN
          IF ~dbOk
          THEN ReturnErr(r, <<"database error checking for existing instance">> \o ErrDatabase,
                         {"ExistsServiceInstanceDetails"})
          ELSE IF ~exists
          THEN ReturnErr(r, ErrInstanceDoesNotExist, {"ExistsServiceInstanceDetails"})
          ELSE Goto(r, "get", {"ExistsServiceInstanceDetails"})
    /\ UNCHANGED <<components, defaultTfVersion, stateTfVersion, store, inflight, removed>>

\* instance, err := broker.store.GetServiceInstanceDetails(instanceID)
DeprovisionGet(r, Outcomes) ==
    /\ requests[r].pc = "get"
    /\ \E dbOk \in Outcomes :
          LET row == instanceDetails[requests[r].instanceID] IN
          IF ~dbOk \/ ~row.exists
          THEN ReturnErr(r, <<"database error getting existing instance">> \o ErrDatabase,
                         {"GetServiceInstanceDetails"})
          ELSE requests' = [requests EXCEPT ![r].pc = "check", ![r].instance = row,
                                ![r].calls = Called(r, {"GetServiceInstanceDetails"})]
    /\ UNCHANGED <<components, defaultTfVersion, stateTfVersion, store, inflight, removed>>

\* the upgrade check made, its error dropped
DeprovisionCheckIgnored(r, Outcomes) ==
    /\ requests[r].pc = "check"
    /\ \E found \in Outcomes :
          IF ~found
          THEN ReturnErr(r, <<"unknown service">>, {"getDefinitionAndProvider"})
          ELSE Goto(r, "params", {"getDefinitionAndProvider", "CheckUpgradeAvailable"})
    /\ UNCHANGED <<components, defaultTfVersion, stateTfVersion, store, inflight, removed>>

\* getDefinitionAndProvider, then
\* err = serviceProvider.CheckUpgradeAvailable(generateTFInstanceID(instanceID))
DeprovisionCheck(r, Outcomes) ==
    /\ requests[r].pc = "check"
    /\ \E found \in Outcomes, decodes \in Outcomes :
          LET err == CheckUpgradeAvailable(generateTFInstanceID(requests[r].instanceID), decodes) IN
          IF ~found
          THEN ReturnErr(r, <<"unknown service">>, {"getDefinitionAndProvider"})
          ELSE IF err # Nil
          THEN ReturnErr(r, <<"failed to delete">> \o err,
                         {"getDefinitionAndProvider", "CheckUpgradeAvailable"})
          ELSE Goto(r, "params", {"getDefinitionAndProvider", "CheckUpgradeAvailable"})
    /\ UNCHANGED <<components, defaultTfVersion, stateTfVersion, store, inflight, removed>>

\* GetPlanByID, broker.store.GetProvisionRequestDetails, ProvisionVariables
DeprovisionParams(r, Outcomes) ==
    /\ requests[r].pc = "params"
    /\ \E planOk \in Outcomes, dbOk \in Outcomes, varsOk \in Outcomes :
          IF ~planOk
          THEN ReturnErr(r, <<"plan not found">>, {"GetPlanByID"})
          ELSE IF ~dbOk \/ requests[r].instanceID \notin provisionRequestDetails
          THEN ReturnErr(r, <<"error retrieving provision request details">> \o ErrDatabase,
                         {"GetPlanByID", "GetProvisionRequestDetails"})
          ELSE IF ~varsOk
          THEN ReturnErr(r, <<"invalid variables">>,
                         {"GetPlanByID", "GetProvisionRequestDetails", "ProvisionVariables"})
          ELSE Goto(r, "provider",
                    {"GetPlanByID", "GetProvisionRequestDetails", "ProvisionVariables"})
    /\ UNCHANGED <<components, defaultTfVersion, stateTfVersion, store, inflight, removed>>

\* the provider call with every successful return taken for a synchronous one
DeprovisionProviderAlwaysSync(r) ==
    /\ requests[r].pc = "provider"
    /\ LET deploymentGUID == generateTfID(requests[r].instance.GUID, "") IN
       \E out \in ProviderDeprovisionOutcomes(deploymentGUID) :
          /\ terraformDeployments' = [terraformDeployments EXCEPT ![deploymentGUID] = out.deployment]
          /\ inflight' = [inflight EXCEPT ![deploymentGUID] = @ + out.started]
          /\ IF out.err # Nil
             THEN ReturnErr(r, out.err, {"Deprovision"})
             ELSE requests' = [requests EXCEPT
                      ![r].pc = "delete_instance",
                      ![r].operationID = out.operationID,
                      ![r].calls = Called(r, {"Deprovision"})]
    /\ UNCHANGED <<components, defaultTfVersion, stateTfVersion, instanceDetails, provisionRequestDetails, removed>>

\* the provider call with its error dropped
DeprovisionProviderErrDropped(r) ==
    /\ requests[r].pc = "provider"
    /\ LET deploymentGUID == generateTfID(requests[r].instance.GUID, "") IN
       \E out \in ProviderDeprovisionOutcomes(deploymentGUID) :
          /\ terraformDeployments' = [terraformDeployments EXCEPT ![deploymentGUID] = out.deployment]
          /\ inflight' = [inflight EXCEPT ![deploymentGUID] = @ + out.started]
          /\ requests' = [requests EXCEPT
                      ![r].pc = IF out.operationID = "" THEN "delete_instance" ELSE "store",
                      ![r].operationID = out.operationID,
                      ![r].calls = Called(r, {"Deprovision"})]
    /\ UNCHANGED <<components, defaultTfVersion, stateTfVersion, instanceDetails, provisionRequestDetails, removed>>

\* operationID, err := serviceProvider.Deprovision(ctx, instance.GUID, details, vars)
DeprovisionProvider(r) ==
    /\ requests[r].pc = "provider"
    /\ LET deploymentGUID == generateTfID(requests[r].instance.GUID, "") IN
       \E out \in ProviderDeprovisionOutcomes(deploymentGUID) :
          /\ terraformDeployments' = [terraformDeployments EXCEPT ![deploymentGUID] = out.deployment]
          /\ inflight' = [inflight EXCEPT ![deploymentGUID] = @ + out.started]
          /\ IF out.err # Nil
             THEN ReturnErr(r, out.err, {"Deprovision"})
             ELSE requests' = [requests EXCEPT
                      ![r].pc = IF out.operationID = "" THEN "delete_instance" ELSE "store",
                      ![r].operationID = out.operationID,
                      ![r].calls = Called(r, {"Deprovision"})]
    /\ UNCHANGED <<components, defaultTfVersion, stateTfVersion, instanceDetails, provisionRequestDetails, removed>>

\* the delete of the instance row with no condition on the id
DeprovisionDeleteEveryInstance(r, Outcomes) ==
    /\ requests[r].pc = "delete_instance"
    /\ \E dbOk \in Outcomes :
          IF ~dbOk
          THEN /\ ReturnErr(r, <<"error deleting instance details from database">> \o ErrDatabase,
                            {"DeleteServiceInstanceDetails"})
               /\ UNCHANGED <<instanceDetails, removed>>
          ELSE /\ instanceDetails' = [i \in Instances |-> NoInstance]
               /\ removed' = removed \cup {i \in Instances : instanceDetails[i].exists}
               /\ Goto(r, "delete_params", {"DeleteServiceInstanceDetails"})
    /\ UNCHANGED <<components, defaultTfVersion, stateTfVersion, provisionRequestDetails, terraformDeployments, inflight>>

\* operationID == nil: broker.store.DeleteServiceInstanceDetails(instanceID)
DeprovisionDeleteInstance(r, Outcomes) ==
    /\ requests[r].pc = "delete_instance"
    /\ \E dbOk \in Outcomes :
          LET instanceID == requests[r].instanceID IN
          IF ~dbOk
          THEN /\ ReturnErr(r, <<"error deleting instance details from database">> \o ErrDatabase,
                            {"DeleteServiceInstanceDetails"})
               /\ UNCHANGED <<instanceDetails, removed>>
          ELSE /\ instanceDetails' = [instanceDetails EXCEPT ![instanceID] = NoInstance]
               /\ removed' = IF instanceDetails[instanceID].exists
                             THEN removed \cup {instanceID} ELSE removed
               /\ Goto(r, "delete_params", {"DeleteServiceInstanceDetails"})
    /\ UNCHANGED <<components, defaultTfVersion, stateTfVersion, provisionRequestDetails, terraformDeployments, inflight>>

\* the synchronous path returning without the delete of the request details
DeprovisionDeleteParamsSkipped(r, Outcomes) ==
    /\ requests[r].pc = "delete_params"
    /\ \E dbOk \in Outcomes : ReturnErr(r, Nil, {})
    /\ UNCHANGED <<components, defaultTfVersion, stateTfVersion, store, inflight, removed>>

\* broker.store.DeleteProvisionRequestDetails(instanceID); return response, nil
DeprovisionDeleteParams(r, Outcomes) ==
    /\ requests[r].pc = "delete_params"
    /\ \E dbOk \in Outcomes :
          IF ~dbOk
          THEN /\ ReturnErr(r, <<"error deleting provision request details from the database">> \o ErrDatabase,
                            {"DeleteProvisionRequestDetails"})
               /\ UNCHANGED provisionRequestDetails
          ELSE /\ provisionRequestDetails' = provisionRequestDetails \ {requests[r].instanceID}
               /\ ReturnErr(r, Nil, {"DeleteProvisionRequestDetails"})
    /\ UNCHANGED <<components, defaultTfVersion, stateTfVersion, instanceDetails, terraformDeployments, inflight, removed>>

\* the asynchronous path saving the row without setting instance.OperationGUID
DeprovisionStoreNoGUID(r, Outcomes) ==
    /\ requests[r].pc = "store"
    /\ \E dbOk \in Outcomes :
          LET response == [IsAsync |-> TRUE, OperationData |-> requests[r].operationID]
              instance == [requests[r].instance EXCEPT
                               !.OperationType = DeprovisionOperationType]
          IN  IF ~dbOk
              THEN /\ requests' = [requests EXCEPT
                          ![r].pc = "done", ![r].response = response, ![r].instance = instance,
                          ![r].err = <<"error saving instance details to database">> \o ErrDatabase,
                          ![r].calls = Called(r, {"StoreServiceInstanceDetails"})]
                   /\ UNCHANGED instanceDetails
              ELSE /\ requests' = [requests EXCEPT
                          ![r].pc = "done", ![r].response = response, ![r].instance = instance,
                          ![r].err = Nil,
                          ![r].calls = Called(r, {"StoreServiceInstanceDetails"})]
                   /\ instanceDetails' = [instanceDetails EXCEPT ![instance.GUID] = instance]
    /\ UNCHANGED <<components, defaultTfVersion, stateTfVersion, provisionRequestDetails, terraformDeployments, inflight, removed>>

\* the asynchronous path deleting the row as the synchronous one does
DeprovisionStoreDeletes(r, Outcomes) ==
    /\ requests[r].pc = "store"
    /\ \E dbOk \in Outcomes :
          LET response == [IsAsync |-> TRUE, OperationData |-> requests[r].operationID]
              instanceID == requests[r].instanceID
          IN  /\ requests' = [requests EXCEPT
                     ![r].pc = "done", ![r].response = response, ![r].err = Nil,
                     ![r].calls = Called(r, {"DeleteServiceInstanceDetails"})]
              /\ instanceDetails' = [instanceDetails EXCEPT ![instanceID] = NoInstance]
              /\ removed' = IF instanceDetails[instanceID].exists
                            THEN removed \cup {instanceID} ELSE removed
    /\ UNCHANGED <<components, defaultTfVersion, stateTfVersion, provisionRequestDetails, terraformDeployments, inflight>>

\* operationID != nil: fill the response, mark the row with the deprovision
\* operation and broker.store.StoreServiceInstanceDetails(instance)
DeprovisionStore(r, Outcomes) ==
    /\ requests[r].pc = "store"
    /\ \E dbOk \in Outcomes :
          LET response == [IsAsync |-> TRUE, OperationData |-> requests[r].operationID]
              instance == [requests[r].instance EXCEPT
                               !.OperationType = DeprovisionOperationType,
                               !.OperationGUID = requests[r].operationID]
          IN  IF ~dbOk
              THEN /\ requests' = [requests EXCEPT
                          ![r].pc = "done", ![r].response = response, ![r].instance = instance,
                          ![r].err = <<"error saving instance details to database">> \o ErrDatabase,
                          ![r].calls = Called(r, {"StoreServiceInstanceDetails"})]
                   /\ UNCHANGED instanceDetails
              ELSE /\ requests' = [requests EXCEPT
                          ![r].pc = "done", ![r].response = response, ![r].instance = instance,
                          ![r].err = Nil,
                          ![r].calls = Called(r, {"StoreServiceInstanceDetails"})]
                   /\ instanceDetails' = [instanceDetails EXCEPT ![instance.GUID] = instance]
    /\ UNCHANGED <<components, defaultTfVersion, stateTfVersion, provisionRequestDetails, terraformDeployments, inflight, removed>>

\* the caller has the response; the request is over
DeprovisionReturn(r) ==
    /\ requests[r].pc = "done"
    /\ requests' = [requests EXCEPT ![r] = IdleRequest]
    /\ UNCHANGED <<components, defaultTfVersion, stateTfVersion, store, inflight, removed>>

\* ------------------------------------------ the rest of the instance's life
\* the state of an instance in the state machine of the orchestrator
LifeState(i) ==
    LET row == instanceDetails[i]
        deployment == terraformDeployments[generateTFInstanceID(i)]
    IN  IF ~row.exists THEN (IF i \in removed THEN "removed" ELSE "none")
        ELSE IF row.OperationType = DeprovisionOperationType
                \/ deployment.LastOperationType = DeprovisionOperationType
        THEN "deprovisioning"
        ELSE IF deployment.LastOperationState = InProgress THEN "provisioning"
        ELSE deployment.LastOperationState

\* Provision: a first provision, or the retry of a failed one, creates the
\* row, caches the request parameters and starts the engine
Provision(i) ==
    /\ LifeState(i) \in {"none", Failed}
    /\ \E operationID \in ProvisionOperationIDs :
          /\ instanceDetails' = [instanceDetails EXCEPT ![i] =
                 [exists |-> TRUE, GUID |-> i, OperationType |-> ProvisionOperationType,
                  OperationGUID |-> operationID]]
          /\ terraformDeployments' = [terraformDeployments EXCEPT ![generateTFInstanceID(i)] =
                 [exists |-> TRUE, StateVersion |-> stateTfVersion,
                  LastOperationType |-> ProvisionOperationType,
                  LastOperationState |-> InProgress]]
    /\ provisionRequestDetails' = provisionRequestDetails \cup {i}
    /\ inflight' = [inflight EXCEPT ![generateTFInstanceID(i)] = @ + 1]
    /\ UNCHANGED <<components, defaultTfVersion, stateTfVersion, removed, requests>>

\* an engine execution running in the background ends and records its outcome
EngineFinish(deploymentGUID) ==
    /\ inflight[deploymentGUID] > 0
    /\ \E state \in {Succeeded, Failed} :
          terraformDeployments' = [terraformDeployments EXCEPT
              ![deploymentGUID].LastOperationState = state]
    /\ inflight' = [inflight EXCEPT ![deploymentGUID] = @ - 1]
    /\ UNCHANGED <<components, defaultTfVersion, stateTfVersion, instanceDetails, provisionRequestDetails, removed,
                   requests>>

\* provider.OperationStatus: the recorded state of the deployment's last
\* operation, or the error of a deployment that cannot be found
OperationStatus(deploymentGUID) ==
    IF deploymentGUID \notin DOMAIN terraformDeployments
       \/ ~terraformDeployments[deploymentGUID].exists
    THEN [done |-> TRUE, state |-> "", err |-> ErrDeploymentNotFound]
    ELSE LET state == terraformDeployments[deploymentGUID].LastOperationState IN
         [done |-> state # InProgress, state |-> state, err |-> Nil]

\* PollInstance with the instance id passed as the binding id
PollInstanceAsBinding(instanceGUID) == OperationStatus(generateTfID("", instanceGUID))

\* TerraformProvider.PollInstance
PollInstance(instanceGUID) == OperationStatus(generateTfID(instanceGUID, ""))

\* LastOperation: polls the provider; a deprovision seen to have succeeded
\* removes the instance row and the cached request parameters
LastOperation(i) ==
    /\ instanceDetails[i].exists
    /\ LET status == PollInstance(instanceDetails[i].GUID) IN
       IF status.state = Succeeded
          /\ instanceDetails[i].OperationType = DeprovisionOperationType
       THEN /\ instanceDetails' = [instanceDetails EXCEPT ![i] = NoInstance]
            /\ provisionRequestDetails' = provisionRequestDetails \ {i}
            /\ removed' = removed \cup {i}
       ELSE UNCHANGED <<instanceDetails, provisionRequestDetails, removed>>
    /\ UNCHANGED <<components, defaultTfVersion, stateTfVersion, terraformDeployments, inflight, requests>>

\* ---------------------------------------------------------- specifications
DeprovisionStep(r, Outcomes) ==
    \/ DeprovisionEntry(r)
    \/ DeprovisionExists(r, Outcomes)
    \/ DeprovisionGet(r, Outcomes)
    \/ DeprovisionCheck(r, Outcomes)
    \/ DeprovisionParams(r, Outcomes)
    \/ DeprovisionProvider(r)
    \/ DeprovisionDeleteInstance(r, Outcomes)
    \/ DeprovisionDeleteParams(r, Outcomes)
    \/ DeprovisionStore(r, Outcomes)
    \/ DeprovisionReturn(r)

\* the broker serves one request at a time, and nothing else runs meanwhile
Next ==
    \/ \E i \in Instances : Quiescent /\ Provision(i)
    \/ \E d \in TfIDs : Quiescent /\ EngineFinish(d)
    \/ \E i \in Instances : Quiescent /\ LastOperation(i)
    \/ \E r \in Requests : Quiescent /\ DeprovisionStart(r, Snapshot)
    \/ \E r \in Requests : DeprovisionStep(r, AnyOutcome)

Spec == Init /\ [][Next]_vars

\* requests, polls and engine runs interleave at every collaborator call;
\* the collaborators answer without failing
ConcNext ==
    \/ \E i \in Instances : Provision(i)
    \/ \E d \in TfIDs : EngineFinish(d)
    \/ \E i \in Instances : LastOperation(i)
    \/ \E r \in Requests : DeprovisionStart(r, NoSnapshot)
    \/ \E r \in Requests : DeprovisionStep(r, Success)

\* the engine that provisioned is the configured one
ConcInit == Init /\ defaultTfVersion = <<0, 0>> /\ stateTfVersion = defaultTfVersion

ConcSpec == ConcInit /\ [][ConcNext]_vars

\* ------------------------------------------------------- the 0.12 invoker
\* the directory NewTerraform012Invoker was given
pluginDirectory == "plugins"

Addresses == {"a1", "a2", "a3"}
ImportIDs == {"x", "y"}
\* the resources argument of Import: a map from resource address to id
ResourceMaps == UNION {[S -> ImportIDs] : S \in SUBSET Addresses}
\* the orders in which ranging over the map may visit its keys
RangeOrders(resources) ==
    {order \in [1..Cardinality(DOMAIN resources) -> DOMAIN resources] :
        \A a \in DOMAIN resources : \E k \in DOMAIN order : order[k] = a}

Methods == {"Apply", "Show", "Destroy", "Plan", "Import"}

NewInit012(directory) == <<"init", directory>>
NewApply == <<"apply">>
NewShow == <<"show">>
NewDestroy == <<"destroy">>
NewPlan == <<"plan">>
NewImport(resource, id) == <<"import", resource, id>>

\* the command of a method that takes no resources
ActionCommand(method) ==
    CASE method = "Apply" -> NewApply
      [] method = "Show" -> NewShow
      [] method = "Destroy" -> NewDestroy
      [] method = "Plan" -> NewPlan

\* the invoker handing Execute the action without Init
Commands012NoInit(method, resources, order) ==
    IF method = "Import"
    THEN [k \in 1..Len(order) |-> NewImport(order[k], resources[order[k]])]
    ELSE <<ActionCommand(method)>>

\* the commands a method of Terraform012Invoker hands to workspace.Execute
Commands012(method, resources, order) ==
    IF method = "Import"
    THEN <<NewInit012(pluginDirectory)>>
         \o [k \in 1..Len(order) |-> NewImport(order[k], resources[order[k]])]
    ELSE <<NewInit012(pluginDirectory), ActionCommand(method)>>

ErrCommand(cmd) == <<"command failed", cmd[1]>>

\* a method of Terraform012Invoker is called and calls workspace.Execute
InvokerCall(method, resources) ==
    /\ invocation.pc \in {"idle", "returned"}
    /\ method = "Import" \/ resources = <<>>
    /\ \E order \in RangeOrders(resources) :
          invocation' = [pc |-> "executing", method |-> method, resources |-> resources,
                         commands |-> Commands012(method, resources, order),
                         ran |-> <<>>, failedAt |-> 0, executeErr |-> Nil, err |-> Nil]
    /\ UNCHANGED <<broker, libraries, storage>>

\* workspace.Execute runs the next command; a failing command ends the run
ExecuteCommand ==
    /\ invocation.pc = "executing"
    /\ Len(invocation.ran) < Len(invocation.commands)
    /\ LET k == Len(invocation.ran) + 1 IN
       \E ok \in AnyOutcome :
          IF ok
          THEN invocation' = [invocation EXCEPT !.ran = Append(@, invocation.commands[k])]
          ELSE invocation' = [invocation EXCEPT !.failedAt = k,
                                                !.executeErr = ErrCommand(invocation.commands[k]),
                                                !.pc = "executed"]
    /\ UNCHANGED <<broker, libraries, storage>>

\* workspace.Execute has run every command
ExecuteFinish ==
    /\ invocation.pc = "executing"
    /\ Len(invocation.ran) = Len(invocation.commands)
    /\ invocation' = [invocation EXCEPT !.pc = "executed"]
    /\ UNCHANGED <<broker, libraries, storage>>

\* the invoker's method returning nil whatever Execute returned
InvokerReturnNil ==
    /\ invocation.pc = "executed"
    /\ invocation' = [invocation EXCEPT !.pc = "returned", !.err = Nil]
    /\ UNCHANGED <<broker, libraries, storage>>

\* the invoker's method returns the error of workspace.Execute
InvokerReturn ==
    /\ invocation.pc = "executed"
    /\ invocation' = [invocation EXCEPT !.pc = "returned", !.err = invocation.executeErr]
    /\ UNCHANGED <<broker, libraries, storage>>

InvokerNext ==
    \/ \E method \in Methods, resources \in ResourceMaps : InvokerCall(method, resources)
    \/ ExecuteCommand
    \/ ExecuteFinish
    \/ InvokerReturn

\* the broker is at rest with the configured engine
ComponentInit == Init /\ defaultTfVersion = <<0, 0>> /\ stateTfVersion = defaultTfVersion

InvokerSpec == ComponentInit /\ [][InvokerNext]_vars

\* --------------------------------------------------- the deployment storage
Encryptors == {"noop", "cipher"}
Workspaces == {"wsA", "wsB"}
\* the workspace of a receiver nothing was decoded into
NoWorkspace == ""
\* last operation type, state and message
LastOperations == {<<"create", Succeeded, "yes!!">>, <<"update", Failed, "too bad">>}
\* the arguments of StoreTerraformDeployment
Records ==
    {[ID |-> id, Workspace |-> w, LastOperationType |-> o[1],
      LastOperationState |-> o[2], LastOperationMessage |-> o[3]] :
        id \in StorageIDs, w \in Workspaces, o \in LastOperations}

ErrEncrypt == <<"bang">>
ErrDecrypt == <<"cannot decrypt">>
ErrJSON == <<"invalid JSON">>

\* an Encrypt that loses the last byte
NoopEncryptTruncating(b) == [bytes |-> SubSeq(b, 1, Len(b) - 1), err |-> Nil]

\* NoopEncryptor.Encrypt and NoopEncryptor.Decrypt
NoopEncrypt(b) == [bytes |-> b, err |-> Nil]
NoopDecrypt(b) == [bytes |-> b, err |-> Nil]

\* an encrypting Encryptor: Encrypt produces a ciphertext or fails, Decrypt
\* gives back what was encrypted and rejects what is not a ciphertext
CipherEncrypt(b, ok) ==
    IF ok THEN [bytes |-> <<"enc">> \o b, err |-> Nil]
    ELSE [bytes |-> <<>>, err |-> ErrEncrypt]
CipherDecrypt(b) ==
    IF Len(b) >= 1 /\ b[1] = "enc" THEN [bytes |-> Tail(b), err |-> Nil]
    ELSE [bytes |-> <<>>, err |-> ErrDecrypt]

\* s.encryptor.Encrypt and s.encryptor.Decrypt
Encrypt(b, ok) == IF encryptor = "noop" THEN NoopEncrypt(b) ELSE CipherEncrypt(b, ok)
Decrypt(b) == IF encryptor = "noop" THEN NoopDecrypt(b) ELSE CipherDecrypt(b)

\* json.Marshal of a workspace
Marshal(a) == [bytes |-> <<"json", a>>, err |-> Nil]

\* json.Unmarshal into a workspace
Unmarshal(b) ==
    IF Len(b) = 2 /\ b[1] = "json" /\ b[2] \in Workspaces
    THEN [value |-> b[2], err |-> Nil]
    ELSE [value |-> NoWorkspace, err |-> ErrJSON]

\* encodeBytes returning what Encrypt returned as bytes, and no error
encodeBytesErrIgnored(b, ok) ==
    [bytes |-> Encrypt(b, ok).bytes, err |-> Nil]

\* Storage.encodeBytes
encodeBytes(b, ok) ==
    LET c == Encrypt(b, ok) IN
    IF c.err # Nil THEN [bytes |-> <<>>, err |-> <<"encryption error">> \o c.err]
    ELSE [bytes |-> c.bytes, err |-> Nil]

\* encodeJSON returning the serialized workspace unencrypted
encodeJSONUnencrypted(a, ok) ==
    Marshal(a)

\* Storage.encodeJSON
encodeJSON(a, ok) ==
    LET b == Marshal(a) IN
    IF b.err # Nil THEN [bytes |-> <<>>, err |-> <<"JSON marshal error">> \o b.err]
    ELSE encodeBytes(b.bytes, ok)

\* decodeBytes returning the stored bytes as they are
decodeBytesUndecrypted(a) ==
    [bytes |-> a, err |-> Nil]

\* decodeBytes returning no bytes when decryption fails, and no error
decodeBytesErrSwallowed(a) ==
    [bytes |-> Decrypt(a).bytes, err |-> Nil]

\* Storage.decodeBytes
decodeBytes(a) ==
    LET d == Decrypt(a) IN
    IF d.err # Nil THEN [bytes |-> <<>>, err |-> <<"decryption error">> \o d.err]
    ELSE [bytes |-> d.bytes, err |-> Nil]

\* Storage.decodeJSON: the receiver is left as it was unless bytes are parsed
decodeJSON(a, receiver) ==
    LET b == decodeBytes(a) IN
    IF b.err # Nil THEN [value |-> receiver, err |-> b.err]
    ELSE IF Len(b.bytes) = 0 THEN [value |-> receiver, err |-> Nil]
    ELSE LET u == Unmarshal(b.bytes) IN
         IF u.err # Nil THEN [value |-> receiver, err |-> <<"JSON parse error">> \o u.err]
         ELSE [value |-> u.value, err |-> Nil]

\* the rows of a table with an id
RowsOf(t, id) == {row \in t : row.ID = id}
StorageQuiescent == \A c \in StorageCallers : storageCalls[c].pc \in {"idle", "done"}
StorageReturn(c, call) == storageCalls' = [storageCalls EXCEPT ![c] = call]

\* StoreTerraformDeployment: the workspace is encoded
StoreTerraformDeployment(c, record, before) ==
    /\ storageCalls[c].pc \in {"idle", "done"}
    /\ \E ok \in AnyOutcome :
          LET e == encodeJSON(record.Workspace, ok)
              call == [IdleStorageCall EXCEPT !.op = "Store", !.id = record.ID,
                                              !.record = record, !.before = before] IN
          IF e.err # Nil
          THEN StorageReturn(c, [call EXCEPT !.pc = "done",
                                             !.err = <<"error encoding workspace">> \o e.err])
          ELSE StorageReturn(c, [call EXCEPT !.pc = "encoded", !.blob = e.bytes])
    /\ UNCHANGED <<broker, libraries, invocation, encryptor, table, lastStored>>

\* the row a Store call writes
StoredRow(call) ==
    [ID |-> call.id, Workspace |-> call.blob,
     LastOperationType |-> call.record.LastOperationType,
     LastOperationState |-> call.record.LastOperationState,
     LastOperationMessage |-> call.record.LastOperationMessage]

\* the write of StoreTerraformDeployment adding a row whatever is there
StoreInsert(c) ==
    /\ storageCalls[c].pc = "encoded"
    /\ table' = table \cup {StoredRow(storageCalls[c])}
    /\ lastStored' = [lastStored EXCEPT ![storageCalls[c].id] = storageCalls[c].record]
    /\ StorageReturn(c, [storageCalls[c] EXCEPT !.pc = "done"])
    /\ UNCHANGED <<broker, libraries, invocation, encryptor>>

\* StoreTerraformDeployment: the row is inserted, or replaces the row of its id
StoreUpsert(c) ==
    /\ storageCalls[c].pc = "encoded"
    /\ table' = (table \ RowsOf(table, storageCalls[c].id)) \cup {StoredRow(storageCalls[c])}
    /\ lastStored' = [lastStored EXCEPT ![storageCalls[c].id] = storageCalls[c].record]
    /\ StorageReturn(c, [storageCalls[c] EXCEPT !.pc = "done"])
    /\ UNCHANGED <<broker, libraries, invocation, encryptor>>

\* GetTerraformDeployment
GetTerraformDeployment(c, id, before) ==
    /\ storageCalls[c].pc \in {"idle", "done"}
    /\ LET call == [IdleStorageCall EXCEPT !.pc = "done", !.op = "Get", !.id = id,
                                           !.before = before] IN
       IF RowsOf(table, id) = {}
       THEN StorageReturn(c, [call EXCEPT !.err = ErrDeploymentNotFound])
       ELSE \E row \in RowsOf(table, id) :
               LET w == decodeJSON(row.Workspace, NoWorkspace) IN
               IF w.err # Nil
               THEN StorageReturn(c, [call EXCEPT !.err = ErrDecoding \o w.err])
               ELSE StorageReturn(c, [call EXCEPT !.result = [row EXCEPT !.Workspace = w.value]])
    /\ UNCHANGED <<broker, libraries, invocation, encryptor, table, lastStored>>

\* ExistsTerraformDeployment
ExistsTerraformDeployment(c, id, before) ==
    /\ storageCalls[c].pc \in {"idle", "done"}
    /\ StorageReturn(c, [IdleStorageCall EXCEPT !.pc = "done", !.op = "Exists", !.id = id,
                                                !.found = (RowsOf(table, id) # {}),
                                                !.before = before])
    /\ UNCHANGED <<broker, libraries, invocation, encryptor, table, lastStored>>

\* DeleteTerraformDeployment failing when there is no row to delete
DeleteTerraformDeploymentStrict(c, id, before) ==
    /\ storageCalls[c].pc \in {"idle", "done"}
    /\ table' = table \ RowsOf(table, id)
    /\ lastStored' = [lastStored EXCEPT ![id] = NoRecord]
    /\ StorageReturn(c, [IdleStorageCall EXCEPT !.pc = "done", !.op = "Delete", !.id = id,
                                                !.err = IF RowsOf(table, id) = {}
                                                        THEN ErrDeploymentNotFound ELSE Nil,
                                                !.before = before])
    /\ UNCHANGED <<broker, libraries, invocation, encryptor>>

\* DeleteTerraformDeployment
DeleteTerraformDeployment(c, id, before) ==
    /\ storageCalls[c].pc \in {"idle", "done"}
    /\ table' = table \ RowsOf(table, id)
    /\ lastStored' = [lastStored EXCEPT ![id] = NoRecord]
    /\ StorageReturn(c, [IdleStorageCall EXCEPT !.pc = "done", !.op = "Delete", !.id = id,
                                                !.before = before])
    /\ UNCHANGED <<broker, libraries, invocation, encryptor>>

\* blobs of rows that no StoreTerraformDeployment of this Storage wrote
ForeignBlobs == {<<>>, <<"enc">>, <<"garbage">>, <<"enc", "garbage">>}
\* the table storage.New finds: empty, or holding such a row
InitialTables ==
    {{}} \cup {{[ID |-> "d1", Workspace |-> b, LastOperationType |-> "create",
                 LastOperationState |-> Succeeded, LastOperationMessage |-> "amazing"]} :
                   b \in ForeignBlobs}

StorageInit ==
    /\ BrokerInit
    /\ defaultTfVersion = <<0, 0>>
    /\ stateTfVersion = defaultTfVersion
    /\ invocation = IdleInvocation
    /\ encryptor \in Encryptors
    /\ table \in InitialTables
    /\ storageCalls = [c \in StorageCallers |-> IdleStorageCall]
    /\ lastStored = [id \in StorageIDs |-> NoRecord]
    /\ LibrariesAtRest

\* the one client of a storage that is called sequentially
SoleCaller == "c1"

\* one call at a time
StorageNext ==
    \/ \E record \in Records : StoreTerraformDeployment(SoleCaller, record, table)
    \/ StoreUpsert(SoleCaller)
    \/ \E id \in StorageIDs : GetTerraformDeployment(SoleCaller, id, table)
    \/ \E id \in StorageIDs : ExistsTerraformDeployment(SoleCaller, id, table)
    \/ \E id \in StorageIDs : DeleteTerraformDeployment(SoleCaller, id, table)

StorageSpec == StorageInit /\ [][StorageNext]_vars

\* the calls of two clients interleave at every statement sent to the database
ConcStorageNext ==
    \/ \E c \in StorageCallers, record \in Records :
          StoreTerraformDeployment(c, record, NoTableSnapshot)
    \/ \E c \in StorageCallers : StoreUpsert(c)
    \/ \E c \in StorageCallers, id \in StorageIDs : GetTerraformDeployment(c, id, NoTableSnapshot)
    \/ \E c \in StorageCallers, id \in StorageIDs : ExistsTerraformDeployment(c, id, NoTableSnapshot)
    \/ \E c \in StorageCallers, id \in StorageIDs : DeleteTerraformDeployment(c, id, NoTableSnapshot)

ConcStorageSpec == StorageInit /\ [][ConcStorageNext]_vars

\* ---------------------------------------------------- the no-op encryptor
Bytes == {0, 1, 2}
\* the byte sequences of up to MaxLen bytes
ByteSeqs == UNION {[1..n -> Bytes] : n \in 0..MaxLen}

\* Encrypt(input) is called
NoopEncryptorEncrypt(input) ==
    /\ encryption' = [op |-> "Encrypt", input |-> input, output |-> NoopEncrypt(input)]
    /\ UNCHANGED <<broker, invocation, storage, builder, registrar>>

\* Decrypt(input) is called
NoopEncryptorDecrypt(input) ==
    /\ encryption' = [op |-> "Decrypt", input |-> input, output |-> NoopDecrypt(input)]
    /\ UNCHANGED <<broker, invocation, storage, builder, registrar>>

\* Decrypt is called with what the last Encrypt returned
NoopEncryptorRoundTrip ==
    /\ encryption.op = "Encrypt"
    /\ encryption.output.err = Nil
    /\ encryption' = [op |-> "RoundTrip", input |-> encryption.input,
                      output |-> NoopDecrypt(encryption.output.bytes)]
    /\ UNCHANGED <<broker, invocation, storage, builder, registrar>>

EncryptorNext ==
    \/ \E input \in ByteSeqs : NoopEncryptorEncrypt(input)
    \/ \E input \in ByteSeqs : NoopEncryptorDecrypt(input)
    \/ NoopEncryptorRoundTrip

EncryptorSpec == ComponentInit /\ [][EncryptorNext]_vars

\* ---------------------------------------------------- the context builder
Keys == {"a", "b"}
\* values of a context: strings, numbers and objects with string fields
Str(text) == [kind |-> "string", text |-> text, fields |-> <<>>]
Num(text) == [kind |-> "number", text |-> text, fields |-> <<>>]
Obj(fields) == [kind |-> "object", text |-> "", fields |-> fields]
ObjectA == Obj([p |-> "x", q |-> "y"])
ObjectB == Obj([p |-> "y"])

\* the maps from some of the keys to values of a set
MapsTo(values) == UNION {[K -> values] : K \in SUBSET Keys}
\* the arguments of MergeMap and of SetEvalConstants
PlainMaps == MapsTo({Str("x"), Num("3.2")})
ConstantMaps == MapsTo({Num("3.14")})
\* the arguments of MergeJSONObject: an empty message, text that is not
\* JSON, JSON that is not an object, and JSON objects
RawMessages ==
    {[form |-> "empty", object |-> <<>>], [form |-> "malformed", object |-> <<>>],
     [form |-> "bool", object |-> <<>>]}
    \cup {[form |-> "object", object |-> m] : m \in MapsTo({ObjectA, ObjectB})}

\* templates: plain text, a reference to a variable, a failing assertion
Literal(text) == [form |-> "literal", name |-> text]
Ref(name) == [form |-> "ref", name |-> name]
AssertFalse == [form |-> "assert", name |-> "failure!"]
Templates == {Literal("x"), Ref("a"), Ref("dne"), AssertFalse}
Types == {"string", "class"}

\* DefaultVariable: Default is absent, a string (a template) or a number
NoDefault == [given |-> FALSE, template |-> Literal(""), value |-> Str("")]
StringDefault(template) == [given |-> TRUE, template |-> template, value |-> Str("")]
NumberDefault(text) == [given |-> TRUE, template |-> Literal(""), value |-> Num(text)]
DefaultVariable(name, default, overwrite) ==
    [Name |-> name, Default |-> default, Overwrite |-> overwrite, Type |-> "string"]
DefaultVariables ==
    {DefaultVariable("a", StringDefault(Literal("x")), FALSE),
     DefaultVariable("a", StringDefault(Literal("y")), FALSE),
     DefaultVariable("a", StringDefault(Literal("y")), TRUE),
     DefaultVariable("b", StringDefault(Ref("a")), FALSE),
     DefaultVariable("b", NoDefault, TRUE),
     DefaultVariable("b", NumberDefault("3.2"), FALSE)}
\* the arguments of MergeDefaultWithEval: no entry, one entry, two entries
DefaultLists ==
    {<<>>} \cup {<<v>> : v \in DefaultVariables}
           \cup {<<v, w>> : v \in DefaultVariables, w \in DefaultVariables}

\* a map with the entries of another written over it
Merged(context, data) ==
    [k \in DOMAIN context \cup DOMAIN data |->
        IF k \in DOMAIN data THEN data[k] ELSE context[k]]

\* the constants hidden by the merged values of the same keys
EvaluationContextShadowed(b) == Merged(b.constants, b.context)

\* what an expression sees: the context with the constants laid over it
EvaluationContext(b) == Merged(b.context, b.constants)

\* interpolation.Eval: the value of a template in an evaluation context
Eval(template, evaluationContext) ==
    CASE template.form = "literal" ->
            [value |-> Str(template.name), err |-> Nil]
      [] template.form = "ref" ->
            IF template.name \in DOMAIN evaluationContext
            THEN [value |-> evaluationContext[template.name], err |-> Nil]
            ELSE [value |-> Str(""), err |-> <<"unknown variable accessed", template.name>>]
      [] template.form = "assert" ->
            [value |-> Str(""), err |-> <<"assertion failed", template.name>>]

\* the cast of an evaluation result to the declared type
CastTo(value, type) ==
    IF type \notin {"", "string"}
    THEN [value |-> value, err |-> <<"couldn't cast", value.text, type, "unknown type">>]
    ELSE IF value.kind = "object"
    THEN [value |-> value, err |-> <<"couldn't cast", value.text, type>>]
    ELSE [value |-> Str(value.text), err |-> Nil]

\* json.Unmarshal of a raw message into a map
UnmarshalObject(raw) ==
    CASE raw.form = "object" -> [object |-> raw.object, err |-> Nil]
      [] raw.form = "bool" ->
            [object |-> <<>>, err |-> <<"json: cannot unmarshal bool into Go value of type map[string]interface {}">>]
      [] OTHER -> [object |-> <<>>, err |-> <<"invalid character">>]

\* a builder that has failed ignores the calls made on it
Failed_(b) == b.err # Nil

\* MergeMap merging into a builder that has failed as well
MergeMapOnAlways(b, data) ==
    [b EXCEPT !.context = Merged(b.context, data)]

\* the builder after MergeMap(data)
MergeMapOn(b, data) ==
    IF Failed_(b) THEN b ELSE [b EXCEPT !.context = Merged(b.context, data)]

\* the fields of an object written over the fields of the object it replaces
DeepMerged(context, data) ==
    [k \in DOMAIN context \cup DOMAIN data |->
        IF k \notin DOMAIN data THEN context[k]
        ELSE IF k \in DOMAIN context /\ context[k].kind = "object" /\ data[k].kind = "object"
        THEN Obj([f \in DOMAIN context[k].fields \cup DOMAIN data[k].fields |->
                    IF f \in DOMAIN data[k].fields THEN data[k].fields[f]
                    ELSE context[k].fields[f]])
        ELSE data[k]]

\* MergeJSONObject merging nested objects field by field
MergeJSONObjectOnDeep(b, raw) ==
    IF Failed_(b) \/ raw.form = "empty" THEN b
    ELSE LET out == UnmarshalObject(raw) IN
         IF out.err # Nil THEN [b EXCEPT !.err = out.err]
         ELSE [b EXCEPT !.context = DeepMerged(b.context, out.object)]

\* the builder after MergeJSONObject(raw)
MergeJSONObjectOn(b, raw) ==
    IF Failed_(b) \/ raw.form = "empty" THEN b
    ELSE LET out == UnmarshalObject(raw) IN
         IF out.err # Nil THEN [b EXCEPT !.err = out.err]
         ELSE MergeMapOn(b, out.object)

\* MergeEvalResult evaluating against the constants alone
MergeEvalResultOnConstantsOnly(b, key, template, type) ==
    IF Failed_(b) THEN b
    ELSE LET result == Eval(template, b.constants) IN
         IF result.err # Nil
         THEN [b EXCEPT !.err = <<"couldn't compute the value for", key>> \o result.err]
         ELSE LET converted == CastTo(result.value, type) IN
              IF converted.err # Nil THEN [b EXCEPT !.err = converted.err]
              ELSE [b EXCEPT !.context = Merged(b.context, [k \in {key} |-> converted.value])]

\* the builder after MergeEvalResult(key, template, type)
MergeEvalResultOn(b, key, template, type) ==
    IF Failed_(b) THEN b
    ELSE LET result == Eval(template, EvaluationContext(b)) IN
         IF result.err # Nil
         THEN [b EXCEPT !.err = <<"couldn't compute the value for", key>> \o result.err]
         ELSE LET converted == CastTo(result.value, type) IN
              IF converted.err # Nil THEN [b EXCEPT !.err = converted.err]
              ELSE [b EXCEPT !.context = Merged(b.context, [k \in {key} |-> converted.value])]

\* an entry of MergeDefaultWithEval written whatever its Overwrite flag
MergeDefaultOnOverwriting(b, v) ==
    IF Failed_(b) \/ ~v.Default.given THEN b
    ELSE IF v.Default.value.kind = "string"
    THEN MergeEvalResultOn(b, v.Name, v.Default.template, v.Type)
    ELSE [b EXCEPT !.context = Merged(b.context, [k \in {v.Name} |-> v.Default.value])]

\* the builder after one entry of MergeDefaultWithEval
MergeDefaultOn(b, v) ==
    IF Failed_(b) \/ ~v.Default.given THEN b
    ELSE IF v.Name \in DOMAIN b.context /\ ~v.Overwrite THEN b
    ELSE IF v.Default.value.kind = "string"
    THEN MergeEvalResultOn(b, v.Name, v.Default.template, v.Type)
    ELSE [b EXCEPT !.context = Merged(b.context, [k \in {v.Name} |-> v.Default.value])]

\* the builder after MergeDefaultWithEval(defaults): the entries in list order
RECURSIVE MergeDefaultWithEvalOn(_, _)
MergeDefaultWithEvalOn(b, defaults) ==
    IF defaults = <<>> THEN b
    ELSE MergeDefaultWithEvalOn(MergeDefaultOn(b, Head(defaults)), Tail(defaults))

\* the builder after SetEvalConstants(constants)
SetEvalConstantsOn(b, constants) ==
    IF Failed_(b) THEN b ELSE [b EXCEPT !.constants = constants]

\* a call is chained on the builder
Chain(op, arg, after) ==
    /\ ~builder.built
    /\ builder.calls < MaxCalls
    /\ builder' = [after EXCEPT !.calls = builder.calls + 1, !.last = [op |-> op, arg |-> arg]]
    /\ UNCHANGED <<broker, invocation, storage, encryption, registrar>>

BuilderMergeMap(data) == Chain("MergeMap", data, MergeMapOn(builder, data))
BuilderMergeJSONObject(raw) == Chain("MergeJSONObject", raw, MergeJSONObjectOn(builder, raw))
BuilderMergeEvalResult(key, template, type) ==
    Chain("MergeEvalResult", [key |-> key, template |-> template, type |-> type],
          MergeEvalResultOn(builder, key, template, type))
BuilderMergeDefaultWithEval(defaults) ==
    Chain("MergeDefaultWithEval", defaults, MergeDefaultWithEvalOn(builder, defaults))
BuilderSetEvalConstants(constants) ==
    Chain("SetEvalConstants", constants, SetEvalConstantsOn(builder, constants))

\* Build(): the context, or the error of the builder and no context
Build(b) ==
    IF Failed_(b) THEN [vc |-> NoContext, err |-> b.err]
    ELSE [vc |-> [exists |-> TRUE, map |-> b.context], err |-> Nil]

BuilderBuild ==
    /\ ~builder.built
    /\ builder' = [builder EXCEPT !.built = TRUE,
                                  !.result = Build(builder).vc,
                                  !.buildErr = Build(builder).err]
    /\ UNCHANGED <<broker, invocation, storage, encryption, registrar>>

\* the configurations of the server and of a brokerpak
Configs == {raw \in RawMessages : raw.form # "empty"}

\* walk merging the brokerpak's configuration before the server's
WalkContextPakFirst(serverConfig, pakConfig) ==
    LET built == Build(MergeJSONObjectOn(MergeJSONObjectOn(NewBuilder, pakConfig), serverConfig)) IN
    IF built.err # Nil
    THEN [vc |-> NoContext, err |-> <<"couldn't merge config for brokerpak">> \o built.err]
    ELSE [vc |-> built.vc, err |-> Nil]

\* Registrar.walk: the context handed to the callback for one brokerpak
WalkContext(serverConfig, pakConfig) ==
    LET built == Build(MergeJSONObjectOn(MergeJSONObjectOn(NewBuilder, serverConfig), pakConfig)) IN
    IF built.err # Nil
    THEN [vc |-> NoContext, err |-> <<"couldn't merge config for brokerpak">> \o built.err]
    ELSE [vc |-> built.vc, err |-> Nil]

\* Registrar.walk builds the context of a brokerpak
RegistrarWalk(serverConfig, pakConfig) ==
    /\ ~builder.built
    /\ builder.calls = 0
    /\ builder' = [NewBuilder EXCEPT !.built = TRUE,
                                     !.last = [op |-> "walk",
                                               arg |-> [server |-> serverConfig, pak |-> pakConfig]],
                                     !.result = WalkContext(serverConfig, pakConfig).vc,
                                     !.buildErr = WalkContext(serverConfig, pakConfig).err]
    /\ UNCHANGED <<broker, invocation, storage, encryption, registrar>>

\* varcontext.Builder(): a new chain starts
BuilderNew ==
    /\ builder.built
    /\ builder' = NewBuilder
    /\ UNCHANGED <<broker, invocation, storage, encryption, registrar>>

BuilderNext ==
    \/ \E data \in PlainMaps : BuilderMergeMap(data)
    \/ \E raw \in RawMessages : BuilderMergeJSONObject(raw)
    \/ \E key \in Keys, template \in Templates, type \in Types :
          BuilderMergeEvalResult(key, template, type)
    \/ \E defaults \in DefaultLists : BuilderMergeDefaultWithEval(defaults)
    \/ \E constants \in ConstantMaps : BuilderSetEvalConstants(constants)
    \/ BuilderBuild
    \/ \E serverConfig \in Configs, pakConfig \in Configs : RegistrarWalk(serverConfig, pakConfig)
    \/ BuilderNew

BuilderSpec == ComponentInit /\ [][BuilderNext]_vars

\* ------------------------------------------------ the brokerpak registrar
\* fakeDefn(name, id) of the registrar's tests
fakeDefn(name, id) == [Id |-> id, Name |-> "service-" \o name]
ServiceDefinitions ==
    {fakeDefn("foo", "b69a96ad"), fakeDefn("bar", "f71f1327"), fakeDefn("foo", "bad uuid")}
ServiceLists == UNION {[1..n -> ServiceDefinitions] : n \in 0..MaxServices}
\* BrokerpakSourceConfig: the excluded services and the service prefix
SourceConfigs ==
    [ExcludedServices : SUBSET {svc.Id : svc \in ServiceDefinitions},
     ServicePrefix : {"", "pre-"}]
UUIDs == {"b69a96ad", "f71f1327"}

\* svc.ToService: the broker's definition, or the validation error of the id
ToService(svc) ==
    IF svc.Id \in UUIDs THEN [bs |-> svc, err |-> Nil]
    ELSE [bs |-> svc, err |-> <<"field must be a UUID: id">>]

RECURSIVE toDefinitionsFrom(_, _, _, _)
\* the loop of toDefinitions from service i on, with the definitions so far
toDefinitionsFrom(services, config, i, out) ==
    IF i > Len(services) THEN [out |-> out, err |-> Nil]
    ELSE IF services[i].Id \in config.ExcludedServices
    THEN toDefinitionsFrom(services, config, i + 1, out)
    ELSE LET svc == [services[i] EXCEPT !.Name = config.ServicePrefix \o services[i].Name]
             converted == ToService(svc) IN
         IF converted.err # Nil THEN [out |-> <<>>, err |-> converted.err]
         ELSE toDefinitionsFrom(services, config, i + 1, Append(out, converted.bs))

\* toDefinitions converting the excluded services as well
toDefinitionsKeepingExcluded(services, config) ==
    toDefinitionsFrom(services, [config EXCEPT !.ExcludedServices = {}], 1, <<>>)

\* Registrar.toDefinitions
toDefinitions(services, config) == toDefinitionsFrom(services, config, 1, <<>>)

\* a call of toDefinitions returns
RegistrarToDefinitions(services, config) ==
    /\ registrar.pc = "idle"
    /\ registrar' = [pc |-> "returned", services |-> services,
                     excluded |-> config.ExcludedServices, prefix |-> config.ServicePrefix,
                     out |-> toDefinitions(services, config).out,
                     err |-> toDefinitions(services, config).err]
    /\ UNCHANGED <<broker, invocation, storage, encryption, builder>>

\* the caller takes the result
RegistrarDone ==
    /\ registrar.pc = "returned"
    /\ registrar' = IdleRegistrar
    /\ UNCHANGED <<broker, invocation, storage, encryption, builder>>

RegistrarNext ==
    \/ \E services \in ServiceLists, config \in SourceConfigs :
          RegistrarToDefinitions(services, config)
    \/ RegistrarDone

RegistrarSpec == ComponentInit /\ [][RegistrarNext]_vars

\* ------------------------------------------------------------------ claims
Done(r) == requests[r].pc = "done"
\* the store and the running executions are as the call found them
Untouched(r) == Snapshot = requests[r].pre
RowOf(r) == instanceDetails[requests[r].instanceID]
PreRowOf(r) == requests[r].pre.instanceDetails[requests[r].instanceID]
DeploymentOf(r) == terraformDeployments[generateTFInstanceID(requests[r].instanceID)]
PreDeploymentOf(r) == requests[r].pre.terraformDeployments[generateTFInstanceID(requests[r].instanceID)]
ExistsCheckFailed == <<"database error checking for existing instance">> \o ErrDatabase
ProviderErrors == {ErrProvider, ErrOperationInProgress, ErrDeploymentNotFound}
\* the provider's Deprovision returned no error and no operation id
ProviderReturnedSync(r) ==
    /\ "Deprovision" \in requests[r].calls
    /\ requests[r].operationID = ""
    /\ requests[r].err \notin ProviderErrors

\* C1: a Deprovision call with clientSupportsAsync = false returns
\* AsyncRequired, whether or not the instance exists, having called no
\* collaborator and changed nothing.
C1_AsyncRequiredFirst ==
    \A r \in Requests :
        (Done(r) /\ ~requests[r].clientSupportsAsync) =>
            /\ requests[r].err = ErrAsyncRequired
            /\ requests[r].calls = {}
            /\ Untouched(r)

C1_Witness ==
    \E r \in Requests :
        /\ Done(r) /\ ~requests[r].clientSupportsAsync
        /\ RowOf(r).exists
        /\ \E i \in Instances : ~instanceDetails[i].exists

\* C2: a Deprovision call with clientSupportsAsync = true for an instance id
\* with no instance row returns InstanceNotFound (the store answering the
\* existence query), without the version check or the provider's Deprovision
\* and without a change of the store.
C2_InstanceNotFound ==
    \A r \in Requests :
        (Done(r) /\ requests[r].clientSupportsAsync /\ ~PreRowOf(r).exists) =>
            /\ requests[r].err # ExistsCheckFailed => requests[r].err = ErrInstanceDoesNotExist
            /\ requests[r].calls = {"ExistsServiceInstanceDetails"}
            /\ Untouched(r)

C2_Witness ==
    \E r \in Requests :
        /\ Done(r) /\ requests[r].clientSupportsAsync /\ ~PreRowOf(r).exists
        /\ requests[r].err = ErrInstanceDoesNotExist

\* the position of a version in the order of versions
VersionRank(v) == 2 * v[1] + v[2]
\* the version check was made on a deployment whose state version it could read
VersionCompared(r) ==
    /\ Done(r)
    /\ "CheckUpgradeAvailable" \in requests[r].calls
    /\ requests[r].err \notin {<<"failed to delete">> \o ErrDeploymentNotFound,
                               <<"failed to delete">> \o ErrDecoding,
                               <<"failed to delete">> \o ErrStateVersion}
VersionCheckFailed(r) == requests[r].err = <<"failed to delete">> \o ErrNewerTerraform

C4_CheckBeforeDestroy ==
    \A r \in Requests :
        /\ "Deprovision" \in requests[r].calls => "CheckUpgradeAvailable" \in requests[r].calls
        /\ (/\ "CheckUpgradeAvailable" \in requests[r].calls
            /\ CheckUpgradeAvailable(generateTFInstanceID(requests[r].instanceID), TRUE) # Nil
            /\ Untouched(r)) =>
              /\ requests[r].pc = "done"
              /\ requests[r].err # Nil
              /\ "Deprovision" \notin requests[r].calls
        /\ (Done(r) /\ requests[r].err # Nil /\ requests[r].err[1] = "failed to delete") =>
              /\ "Deprovision" \notin requests[r].calls
              /\ Untouched(r)

C4_Witness ==
    \E r \in Requests :
        /\ Done(r) /\ VersionCheckFailed(r)
        /\ DeploymentOf(r).LastOperationState = Succeeded

\* C5: when the provider's Deprovision completes synchronously and both
\* deletes succeed, the call returns a non-async response without error and
\* neither the instance row nor the request details row of the instance exists.
C5_SyncDeletesBoth ==
    \A r \in Requests :
        (Done(r) /\ ProviderReturnedSync(r) /\ requests[r].err = Nil) =>
            /\ requests[r].response = NoResponse
            /\ ~RowOf(r).exists
            /\ requests[r].instanceID \notin provisionRequestDetails

C5_Witness ==
    \E r \in Requests :
        /\ Done(r) /\ ProviderReturnedSync(r) /\ requests[r].err = Nil
        /\ PreRowOf(r).exists
        /\ requests[r].instanceID \in requests[r].pre.provisionRequestDetails

\* C6: when the provider's Deprovision returns an operation id and the store
\* write succeeds, the call returns IsAsync = true with that id, and the only
\* change to the rows is that the instance row has OperationType = deprovision
\* and OperationGUID = that id; no row was deleted.
C6_AsyncMarksRow ==
    \A r \in Requests :
        (Done(r) /\ requests[r].operationID # "" /\ requests[r].err = Nil) =>
            /\ requests[r].response = [IsAsync |-> TRUE, OperationData |-> requests[r].operationID]
            /\ RowOf(r).exists
            /\ instanceDetails = [requests[r].pre.instanceDetails EXCEPT
                   ![requests[r].instanceID] =
                       [@ EXCEPT !.OperationType = DeprovisionOperationType,
                                 !.OperationGUID = requests[r].operationID]]
            /\ provisionRequestDetails = requests[r].pre.provisionRequestDetails
            /\ requests[r].instanceID \in provisionRequestDetails

C6_Witness ==
    \E r \in Requests :
        /\ Done(r) /\ requests[r].operationID # "" /\ requests[r].err = Nil
        /\ PreRowOf(r).OperationGUID # requests[r].operationID
        /\ PreRowOf(r).OperationType = ProvisionOperationType

\* C7: at every point of a Deprovision call, the instance row the call found
\* is gone only if the provider's Deprovision returned without error and
\* without an operation id; on every other path it is present at return.
C7_DeleteOnlyAfterSyncDestroy ==
    \A r \in Requests :
        (requests[r].pc # "idle" /\ PreRowOf(r).exists /\ ~RowOf(r).exists) =>
            ProviderReturnedSync(r)

C7_Witness ==
    \E r \in Requests :
        /\ Done(r) /\ PreRowOf(r).exists /\ RowOf(r).exists
        /\ requests[r].operationID # ""
        /\ "Deprovision" \in requests[r].calls

OthersUntouched(r) ==
    LET instanceID == IF requests[r].pc = "idle" THEN requests'[r].instanceID
                      ELSE requests[r].instanceID
    IN  \A j \in Instances \ {instanceID} :
            /\ instanceDetails'[j] = instanceDetails[j]
            /\ (j \in provisionRequestDetails') = (j \in provisionRequestDetails)
            /\ terraformDeployments'[generateTFInstanceID(j)] = terraformDeployments[generateTFInstanceID(j)]
            /\ inflight'[generateTFInstanceID(j)] = inflight[generateTFInstanceID(j)]

AllowedTransitions ==
    {<<"none", "provisioning">>, <<"provisioning", Succeeded>>, <<"provisioning", Failed>>,
     <<Failed, "provisioning">>, <<Succeeded, "deprovisioning">>, <<Failed, "deprovisioning">>,
     <<"deprovisioning", "removed">>}

Returned == invocation.pc = "returned"
\* the Import commands of a resources map, one per pair
ImportCommands(resources) == {NewImport(a, resources[a]) : a \in DOMAIN resources}
\* the elements of a sequence from position 2 on
Rest(seq) == {seq[k] : k \in 2..Len(seq)}

\* C12: Apply, Destroy, Plan and Show each run exactly Init followed by the
\* action's command; Import with n pairs runs Init and then exactly n Import
\* commands, one per pair and none twice (Init alone when n = 0).
C12_CommandSequences ==
    invocation.pc # "idle" =>
        /\ Len(invocation.commands) >= 1
        /\ invocation.commands[1] = NewInit012(pluginDirectory)
        /\ invocation.method # "Import" =>
               invocation.commands = <<NewInit012(pluginDirectory), ActionCommand(invocation.method)>>
        /\ invocation.method = "Import" =>
               /\ Len(invocation.commands) = 1 + Cardinality(DOMAIN invocation.resources)
               /\ Rest(invocation.commands) = ImportCommands(invocation.resources)
        /\ (Returned /\ invocation.err = Nil) => invocation.ran = invocation.commands

C12_Witness ==
    /\ Returned
    /\ invocation.err = Nil
    /\ invocation.method = "Import"
    /\ Cardinality(DOMAIN invocation.resources) = 3
    /\ Len(invocation.ran) = 4

\* C13: the commands are executed in order and execution stops at the first
\* failing command (a failed Init means the action is never run); the error
\* is returned to the invoker's caller; nothing is rolled back: the commands
\* before the failing one stay run.
C13_StopAtFirstFailure ==
    /\ [](/\ invocation.ran = SubSeq(invocation.commands, 1, Len(invocation.ran))
          /\ invocation.failedAt # 0 =>
                /\ Len(invocation.ran) = invocation.failedAt - 1
                /\ invocation.executeErr = ErrCommand(invocation.commands[invocation.failedAt])
          /\ Returned => invocation.err = invocation.executeErr
          /\ (Returned /\ invocation.failedAt = 0) =>
                invocation.err = Nil /\ invocation.ran = invocation.commands)
    /\ [][(invocation.failedAt # 0 /\ invocation'.pc # "executing") =>
             /\ invocation'.ran = invocation.ran
             /\ invocation'.failedAt = invocation.failedAt]_vars

C13_Witness ==
    /\ Returned
    /\ invocation.method = "Import"
    /\ invocation.failedAt = 3
    /\ Len(invocation.ran) = 2
    /\ invocation.err # Nil

\* ---- the deployment storage
\* a call has returned
Finished(c, op) == storageCalls[c].pc = "done" /\ storageCalls[c].op = op
\* a blob is the encryption of the serialized workspace
Encodes(blob, workspace) ==
    Decrypt(blob).err = Nil /\ Decrypt(blob).bytes = Marshal(workspace).bytes
\* a row holds the fields of a record, its workspace encoded
RowHolds(row, record) ==
    /\ row.ID = record.ID
    /\ Encodes(row.Workspace, record.Workspace)
    /\ row.LastOperationType = record.LastOperationType
    /\ row.LastOperationState = record.LastOperationState
    /\ row.LastOperationMessage = record.LastOperationMessage

\* C14: StoreTerraformDeployment is an upsert by GUID: the table never holds
\* two rows of one id that was stored; the write leaves exactly one row of the
\* record's id, holding the record's encoded workspace and its last operation
\* type, state and message, and leaves the rows of every other id as they were.
C14_UpsertByGUID ==
    /\ [](\A id \in StorageIDs : Cardinality(RowsOf(table, id)) <= 1)
    /\ [][\A c \in StorageCallers :
            (storageCalls[c].pc = "encoded" /\ storageCalls'[c].pc = "done") =>
                LET record == storageCalls[c].record IN
                /\ storageCalls'[c].err = Nil
                /\ Cardinality(RowsOf(table', record.ID)) = 1
                /\ \A row \in RowsOf(table', record.ID) : RowHolds(row, record)
                /\ table' \ RowsOf(table', record.ID) = table \ RowsOf(table, record.ID)]_vars

C14_Witness ==
    \E c \in StorageCallers :
        /\ Finished(c, "Store")
        /\ storageCalls[c].err = Nil
        /\ encryptor = "cipher"
        /\ \E old \in RowsOf(storageCalls[c].before, storageCalls[c].id) :
              /\ ~Encodes(old.Workspace, storageCalls[c].record.Workspace)
              /\ old.LastOperationType # storageCalls[c].record.LastOperationType
        /\ \E other \in table : other.ID # storageCalls[c].id

\* C15: GetTerraformDeployment(id) returns the record most recently stored
\* under id (the same workspace after encryption and decryption, the same last
\* operation fields), whatever was stored or deleted under other ids since.
C15_GetReturnsLastStored ==
    \A c \in StorageCallers :
        (Finished(c, "Get") /\ lastStored[storageCalls[c].id] # NoRecord) =>
            /\ storageCalls[c].err = Nil
            /\ storageCalls[c].result = lastStored[storageCalls[c].id]

C15_Witness ==
    \E c \in StorageCallers :
        /\ Finished(c, "Get")
        /\ encryptor = "cipher"
        /\ storageCalls[c].id = "d1"
        /\ storageCalls[c].result = lastStored["d1"]
        /\ storageCalls[c].result.Workspace = "wsA"
        /\ lastStored["d2"] # NoRecord
        /\ lastStored["d2"].Workspace = "wsB"

\* C16: when two writers store the same GUID concurrently, the table holds
\* exactly one row of that GUID and it equals, field for field, the row of
\* one of the two writers.
C16_ConcurrentWriters ==
    \A c1 \in StorageCallers : \A c2 \in StorageCallers \ {c1} :
        (/\ Finished(c1, "Store") /\ storageCalls[c1].err = Nil
         /\ Finished(c2, "Store") /\ storageCalls[c2].err = Nil
         /\ storageCalls[c1].id = storageCalls[c2].id) =>
            LET rows == RowsOf(table, storageCalls[c1].id) IN
            /\ Cardinality(rows) = 1
            /\ \A row \in rows :
                  \E c \in {c1, c2} :
                      row = StoredRow(storageCalls[c]) /\ RowHolds(row, storageCalls[c].record)

C16_Witness ==
    \E c1 \in StorageCallers : \E c2 \in StorageCallers \ {c1} :
        /\ Finished(c1, "Store") /\ storageCalls[c1].err = Nil
        /\ Finished(c2, "Store") /\ storageCalls[c2].err = Nil
        /\ storageCalls[c1].id = storageCalls[c2].id
        /\ storageCalls[c1].record.Workspace # storageCalls[c2].record.Workspace
        /\ storageCalls[c1].record.LastOperationType # storageCalls[c2].record.LastOperationType
        /\ StoredRow(storageCalls[c1]) \in table

\* C17: when encryption fails, StoreTerraformDeployment returns an encoding
\* error that wraps the encryption cause and the table is as it was; a Store
\* that returns no error has encrypted the workspace.
C17_EncryptionFailure ==
    \A c \in StorageCallers :
        Finished(c, "Store") =>
            /\ storageCalls[c].err # Nil =>
                  /\ storageCalls[c].err = <<"error encoding workspace", "encryption error">> \o ErrEncrypt
                  /\ table = storageCalls[c].before
            /\ storageCalls[c].err = Nil =>
                  Encodes(storageCalls[c].blob, storageCalls[c].record.Workspace)

C17_Witness ==
    \E c \in StorageCallers :
        /\ Finished(c, "Store")
        /\ storageCalls[c].err # Nil
        /\ table # {}
        /\ table = storageCalls[c].before

\* C18: GetTerraformDeployment on an id whose row holds a blob that cannot
\* be decrypted returns a decoding error that wraps the decryption cause; on
\* an id with no row it returns the not-found error, which is a different
\* error; neither changes the table.
C18_DecodingErrorNotNotFound ==
    \A c \in StorageCallers :
        Finished(c, "Get") =>
            LET rows == RowsOf(storageCalls[c].before, storageCalls[c].id) IN
            /\ rows = {} => storageCalls[c].err = ErrDeploymentNotFound
            /\ (\E row \in rows : Decrypt(row.Workspace).err # Nil) =>
                  /\ storageCalls[c].err = ErrDecoding \o <<"decryption error">> \o ErrDecrypt
                  /\ storageCalls[c].err # ErrDeploymentNotFound
            /\ table = storageCalls[c].before

C18_Witness ==
    \E c \in StorageCallers :
        /\ Finished(c, "Get")
        /\ \E row \in RowsOf(table, storageCalls[c].id) : Decrypt(row.Workspace).err # Nil
        /\ storageCalls[c].err = ErrDecoding \o <<"decryption error">> \o ErrDecrypt

\* a blob decrypts to a valid serialized workspace
DecryptsToWorkspace(blob) ==
    Decrypt(blob).err = Nil /\ Unmarshal(Decrypt(blob).bytes).err = Nil

\* C19: decoding never yields a default silently: for every blob that does
\* not decrypt to a valid serialized workspace (it cannot be decrypted, or the
\* decrypted content is invalid JSON or empty) decodeJSON returns an error,
\* and so does GetTerraformDeployment on the row holding it.
C19_NoSilentDefault ==
    /\ \A row \in table :
          ~DecryptsToWorkspace(row.Workspace) => decodeJSON(row.Workspace, NoWorkspace).err # Nil
    /\ \A c \in StorageCallers :
          (/\ Finished(c, "Get")
           /\ \E row \in RowsOf(storageCalls[c].before, storageCalls[c].id) :
                 ~DecryptsToWorkspace(row.Workspace)) =>
              storageCalls[c].err # Nil

\* C20: DeleteTerraformDeployment is idempotent: it succeeds on an id with
\* no row, the first time and again, and leaves the table as it was; it
\* succeeds on an id with a row, after which the id has no row and the rows
\* of the other ids are still there.
C20_DeleteIdempotent ==
    \A c \in StorageCallers :
        Finished(c, "Delete") =>
            /\ storageCalls[c].err = Nil
            /\ RowsOf(table, storageCalls[c].id) = {}
            /\ table = storageCalls[c].before \ RowsOf(storageCalls[c].before, storageCalls[c].id)
            /\ RowsOf(storageCalls[c].before, storageCalls[c].id) = {} =>
                  table = storageCalls[c].before

C20_Witness ==
    \E c \in StorageCallers :
        /\ Finished(c, "Delete")
        /\ storageCalls[c].err = Nil
        /\ RowsOf(storageCalls[c].before, storageCalls[c].id) = {}
        /\ table # {}

\* ---- the no-op encryptor
\* C21: the no-op encryptor is the identity in both directions and never
\* fails: Encrypt(w) = w, Decrypt(w) = w and Decrypt(Encrypt(w)) = w, each
\* with a nil error, for every byte sequence w, the empty one included.
C21_NoopIdentity ==
    /\ encryption.op # "" => encryption.output = [bytes |-> encryption.input, err |-> Nil]
    /\ \A w \in ByteSeqs :
          /\ NoopEncrypt(w) = [bytes |-> w, err |-> Nil]
          /\ NoopDecrypt(w) = [bytes |-> w, err |-> Nil]
          /\ NoopDecrypt(NoopEncrypt(w).bytes) = [bytes |-> w, err |-> Nil]

C21_Witness ==
    /\ encryption.op = "RoundTrip"
    /\ Len(encryption.input) = MaxLen
    /\ encryption.output.bytes = encryption.input

\* ---- the context builder
\* a call was chained on the builder
Chained(op) ==
    /\ ~builder.built /\ ~builder'.built
    /\ builder'.calls = builder.calls + 1
    /\ builder'.last.op = op
\* the map a plain merge writes
PlainData(last) == IF last.op = "MergeMap" THEN last.arg ELSE last.arg.object
\* a plain merge was chained on a builder that had not failed, and succeeded
PlainMerged ==
    /\ Chained("MergeMap") \/ Chained("MergeJSONObject")
    /\ builder.err = Nil
    /\ builder'.err = Nil
\* Build was called
Builds == ~builder.built /\ builder'.built /\ builder'.last = builder.last

\* C22: over MergeMap and MergeJSONObject calls that succeed, each key has
\* the value of the last call that contained it and keeps the value of an
\* earlier call otherwise: every such call leaves each of its keys at its own
\* value and every other key as it was, Build returns that context, and the
\* context walk builds holds the brokerpak's value for each key of the
\* brokerpak's configuration and the server's value for the others.
C22_LastWriteWins ==
    /\ [][PlainMerged =>
             LET data == PlainData(builder'.last) IN
             /\ DOMAIN builder'.context = DOMAIN builder.context \cup DOMAIN data
             /\ \A k \in DOMAIN builder'.context :
                   builder'.context[k] = IF k \in DOMAIN data THEN data[k]
                                         ELSE builder.context[k]]_vars
    /\ [][(Builds /\ builder.err = Nil) =>
             /\ builder'.buildErr = Nil
             /\ builder'.result = [exists |-> TRUE, map |-> builder.context]]_vars
    /\ []((builder.last.op = "walk" /\ builder.buildErr = Nil) =>
             LET server == builder.last.arg.server.object
                 pak == builder.last.arg.pak.object IN
             /\ builder.result.exists
             /\ DOMAIN builder.result.map = DOMAIN server \cup DOMAIN pak
             /\ \A k \in DOMAIN builder.result.map :
                   builder.result.map[k] = IF k \in DOMAIN pak THEN pak[k] ELSE server[k])

C22_Witness ==
    /\ builder.last.op = "walk"
    /\ builder.buildErr = Nil
    /\ DOMAIN builder.last.arg.server.object = {"a", "b"}
    /\ DOMAIN builder.last.arg.pak.object = {"a"}
    /\ builder.last.arg.server.object["a"] # builder.last.arg.pak.object["a"]
    /\ builder.result.map["a"] = builder.last.arg.pak.object["a"]
    /\ builder.result.map["b"] = builder.last.arg.server.object["b"]

\* C23: a constant set by SetEvalConstants is what an expression evaluated
\* later resolves its name to, whatever a plain merge stored under that name
\* since; the plain merge leaves the constants as they were and its own value
\* is the one the context holds under the key.
C23_ConstantsNotShadowed ==
    /\ [][(/\ Chained("MergeEvalResult")
           /\ builder.err = Nil
           /\ builder'.last.arg.type = "string"
           /\ builder'.last.arg.template.form = "ref"
           /\ builder'.last.arg.template.name \in DOMAIN builder.constants) =>
              /\ builder'.err = Nil
              /\ builder'.context[builder'.last.arg.key] =
                    Str(builder.constants[builder'.last.arg.template.name].text)]_vars
    /\ [][PlainMerged =>
             /\ builder'.constants = builder.constants
             /\ \A k \in DOMAIN PlainData(builder'.last) :
                   builder'.context[k] = PlainData(builder'.last)[k]]_vars

C23_Witness ==
    /\ builder.last.op = "MergeEvalResult"
    /\ builder.last.arg.key = "b"
    /\ builder.last.arg.template = Ref("a")
    /\ builder.err = Nil
    /\ "a" \in DOMAIN builder.constants
    /\ builder.constants["a"] = Num("3.14")
    /\ "a" \in DOMAIN builder.context
    /\ builder.context["a"] = Num("3.2")
    /\ builder.context["b"] = Str("3.14")

Writing(defaults, context, k) ==
    {i \in DOMAIN defaults :
        /\ defaults[i].Name = k
        /\ defaults[i].Default.given
        /\ \/ defaults[i].Overwrite
           \/ /\ k \notin DOMAIN context
              /\ \A j \in 1..(i - 1) : ~(defaults[j].Name = k /\ defaults[j].Default.given)}
Last(indices) == CHOOSE i \in indices : \A j \in indices : j <= i

\* C25: MergeDefaultWithEval writes the value of a default under its Name
\* when the key is not in the context, replaces the value of a key that is in
\* the context if and only if Overwrite is true, and sets no key for an entry
\* that has no Default.
C25_DefaultsAndOverwrite ==
    [][(/\ Chained("MergeDefaultWithEval")
        /\ builder.err = Nil
        /\ builder'.err = Nil) =>
           \A k \in Keys :
              LET writing == Writing(builder'.last.arg, builder.context, k) IN
              IF writing = {}
              THEN /\ k \in DOMAIN builder'.context <=> k \in DOMAIN builder.context
                   /\ k \in DOMAIN builder.context => builder'.context[k] = builder.context[k]
              ELSE LET default == builder'.last.arg[Last(writing)].Default IN
                   /\ k \in DOMAIN builder'.context
                   /\ default.value.kind # "string" => builder'.context[k] = default.value
                   /\ (default.value.kind = "string" /\ default.template.form = "literal") =>
                         builder'.context[k] = Str(default.template.name)]_vars

C25_Witness ==
    /\ builder.last.op = "MergeDefaultWithEval"
    /\ builder.err = Nil
    /\ builder.calls = 2
    /\ builder.last.arg = <<DefaultVariable("a", StringDefault(Literal("y")), FALSE),
                            DefaultVariable("b", NoDefault, TRUE)>>
    /\ DOMAIN builder.context = {"a"}
    /\ builder.context["a"] = Str("x")

\* C26: an expression sees the context accumulated before it, in call and
\* list order: a reference to a key set earlier evaluates to that key's
\* value (defaults [a = "x", b = "${a}"] build {a: "x", b: "x"}); a reference
\* to a name not defined at that point, or a failing assertion, is an
\* evaluation error that names the variable, and Build then fails with it.
C26_EvalSeesAccumulatedContext ==
    /\ [][(/\ Chained("MergeEvalResult")
           /\ builder.err = Nil
           /\ builder'.last.arg.type = "string") =>
              LET key == builder'.last.arg.key
                  template == builder'.last.arg.template
                  defined == DOMAIN builder.context \cup DOMAIN builder.constants IN
              /\ (template.form = "ref" /\ template.name \in DOMAIN builder.context
                  /\ template.name \notin DOMAIN builder.constants
                  /\ builder.context[template.name].kind # "object") =>
                    /\ builder'.err = Nil
                    /\ builder'.context[key] = Str(builder.context[template.name].text)
              /\ ((template.form = "ref" /\ template.name \notin defined)
                  \/ template.form = "assert") =>
                    /\ Len(builder'.err) >= 2
                    /\ builder'.err[1] = "couldn't compute the value for"
                    /\ builder'.err[2] = key
                    /\ builder'.context = builder.context]_vars
    /\ [][(/\ Chained("MergeDefaultWithEval")
           /\ builder.context = <<>>
           /\ builder.constants = <<>>
           /\ builder.err = Nil
           /\ builder'.last.arg = <<DefaultVariable("a", StringDefault(Literal("x")), FALSE),
                                    DefaultVariable("b", StringDefault(Ref("a")), FALSE)>>) =>
              /\ builder'.err = Nil
              /\ builder'.context = [k \in {"a", "b"} |-> Str("x")]]_vars
    /\ [][(Builds /\ builder.err # Nil) => builder'.buildErr = builder.err]_vars

C26_Witness ==
    /\ builder.built
    /\ builder.buildErr = Nil
    /\ builder.last.op = "MergeDefaultWithEval"
    /\ builder.last.arg = <<DefaultVariable("a", StringDefault(Literal("x")), FALSE),
                            DefaultVariable("b", StringDefault(Ref("a")), FALSE)>>
    /\ builder.calls = 1
    /\ builder.result = [exists |-> TRUE, map |-> [k \in {"a", "b"} |-> Str("x")]]

\* C27: MergeJSONObject merges top-level keys only: a later object replaces
\* the earlier value of a key whole, nested keys of the earlier value are not
\* kept; malformed JSON and JSON that is not an object are parse errors with
\* which Build fails; an empty raw message merges nothing and is no error.
C27_TopLevelOnly ==
    /\ [][(Chained("MergeJSONObject") /\ builder.err = Nil) =>
             LET raw == builder'.last.arg IN
             /\ raw.form = "empty" =>
                   builder'.context = builder.context /\ builder'.err = Nil
             /\ raw.form \in {"malformed", "bool"} =>
                   builder'.context = builder.context /\ builder'.err # Nil
             /\ raw.form = "object" =>
                   /\ builder'.err = Nil
                   /\ \A k \in DOMAIN raw.object : builder'.context[k] = raw.object[k]]_vars
    /\ [][(Builds /\ builder.err # Nil) =>
             builder'.buildErr = builder.err /\ builder'.result = NoContext]_vars
    /\ []((builder.last.op = "walk"
           /\ \E raw \in {builder.last.arg.server, builder.last.arg.pak} : raw.form # "object") =>
              builder.buildErr # Nil /\ builder.result = NoContext)

C27_Witness ==
    /\ builder.last.op = "MergeJSONObject"
    /\ builder.calls = 2
    /\ builder.err = Nil
    /\ builder.last.arg.form = "object"
    /\ DOMAIN builder.last.arg.object = {"a"}
    /\ builder.last.arg.object["a"] = ObjectB
    /\ builder.context = [k \in {"a", "b"} |-> IF k = "a" THEN ObjectB ELSE ObjectA]

\* ---- the brokerpak registrar
\* the services of the call that are not excluded, in input order
Kept == SelectSeq(registrar.services, LAMBDA svc : svc.Id \notin registrar.excluded)

\* C28: toDefinitions returns one definition for each input service whose id
\* is not excluded, in input order, its name the service's name with the
\* prefix before it; if the conversion of a service that is not excluded
\* fails, it returns that error and no list.
C28_ToDefinitions ==
    registrar.pc = "returned" =>
        IF \E i \in DOMAIN Kept : Kept[i].Id \notin UUIDs
        THEN /\ registrar.err = <<"field must be a UUID: id">>
             /\ registrar.out = <<>>
        ELSE /\ registrar.err = Nil
             /\ Len(registrar.out) = Len(Kept)
             /\ \A i \in DOMAIN Kept :
                   /\ registrar.out[i].Id = Kept[i].Id
                   /\ registrar.out[i].Name = registrar.prefix \o Kept[i].Name

C28_Witness ==
    /\ registrar.pc = "returned"
    /\ registrar.services = <<fakeDefn("foo", "b69a96ad"), fakeDefn("bar", "f71f1327")>>
    /\ registrar.excluded = {"b69a96ad", "bad uuid"}
    /\ registrar.prefix = "pre-"
    /\ registrar.err = Nil
    /\ Len(registrar.out) = 1
    /\ registrar.out[1].Name = "pre-service-bar"

\* ---- ServiceBroker.Deprovision: the rows after the return
\* C29: after a synchronous Deprovision of an instance that had both rows
\* has returned, with or without an error of a delete, the instance row and
\* the request details row of the instance are both present or both absent.
C29_DeletesAtomic ==
    \A r \in Requests :
        (/\ Done(r) /\ ProviderReturnedSync(r)
         /\ PreRowOf(r).exists
         /\ requests[r].instanceID \in requests[r].pre.provisionRequestDetails) =>
            (RowOf(r).exists <=> requests[r].instanceID \in provisionRequestDetails)

\* C30: when the provider's Deprovision returned an operation id and the
\* call has returned, with or without an error of the store write, and the
\* execution is in flight, the instance row has OperationType = deprovision
\* and OperationGUID = that id.
C30_StartedOperationRecorded ==
    \A r \in Requests :
        (/\ Done(r) /\ requests[r].operationID # ""
         /\ inflight[generateTFInstanceID(requests[r].instanceID)] > 0) =>
            /\ RowOf(r).OperationType = DeprovisionOperationType
            /\ RowOf(r).OperationGUID = requests[r].operationID

====
